---------------------------- MODULE Spec2Model ----------------------------
(***************************************************************************)
(* A model of the post-processing and evaluation code of drb-dl-model:     *)
(* code/postproc_utils.py (post_process, take_first_half, unscale_output,  *)
(* rmse_masked, nse, predict, fmt_preds_obs, calc_metrics,                 *)
(* calc_reach_specific_metrics, reach_specific_metrics) and the driver     *)
(* code/predict.py.                                                        *)
(*                                                                         *)
(* Numbers.  The metric functions work on floating point numbers with the  *)
(* special values nan and +/-inf.  They are modelled as extended exact     *)
(* rationals [n, d]: d > 0 is the fraction n/d in lowest terms, 0/0 is     *)
(* nan, 1/0 is +inf and -1/0 is -inf.  Rounding is not modelled.  A square *)
(* root is the term [sqrt |-> q].  In the prediction pipeline a value is   *)
(* [e, x]: the integer x with exp applied e times.                         *)
(***************************************************************************)
EXTENDS Integers, Sequences, FiniteSets, TLC

VARIABLES
    pc,       \* position inside predict, or "ready"/"done" of a function call
    args,     \* the arguments of the running predict call
    io_data,  \* the array archive handed to predict
    hist,     \* what the running predict call has computed so far, in order
    files,    \* the file system: path -> the writes made to it, in order
    left,     \* how many more top-level calls the caller makes
    op,       \* the function a single-function specification applies
    inp,      \* its input (for the evaluation stage: the files it reads)
    out       \* its result

vars == <<pc, args, io_data, hist, files, left, op, inp, out>>

---------------------------------------------------------------------------
(* Bounds of the model.                                                    *)

MaxLen == 3         \* longest observed/predicted sequence given to a metric
MaxVal == 2         \* metric inputs take the values 0..MaxVal, or nan
NumKeys == 3        \* distinct (date, seg_id_nat) keys of the joined tables
MaxJoinRows == 2    \* most rows of a predictions or observations table joined
MinObsCount == 10   \* calc_reach_specific_metrics: more observations than this
MaxB == 2           \* most batches of the arrays handed to predict
MaxT == 3           \* most time steps of a batch
MaxRuns == 2        \* top-level calls made against one file system
MaxSplitRows == 4   \* most rows of a table given to take_first_half alone
MaxSplitDate == 3   \* its dates are 1..MaxSplitDate
MaxGroup == 12      \* most rows of one segment in a joined table
MaxMissing == 2     \* most rows of one segment without an observation

---------------------------------------------------------------------------
(* Extended rational arithmetic (numpy float arithmetic without rounding). *)

Abs(x) == IF x < 0 THEN -x ELSE x

Sign(x) == IF x < 0 THEN -1 ELSE IF x > 0 THEN 1 ELSE 0

RECURSIVE GCD(_, _)
GCD(a, b) == IF b = 0 THEN a ELSE GCD(b, a % b)

Rat(n, d) ==
    IF d = 0 THEN [n |-> Sign(n), d |-> 0]
    ELSE LET g == GCD(Abs(n), Abs(d))
             s == Sign(d)
         IN  [n |-> (s * n) \div g, d |-> (s * d) \div g]

FromInt(i) == [n |-> i, d |-> 1]

NaN == [n |-> 0, d |-> 0]

Zero == FromInt(0)

One == FromInt(1)

IsNaN(v) == v = NaN

FNeg(a) == [n |-> -a.n, d |-> a.d]

FAdd(a, b) ==
    IF IsNaN(a) \/ IsNaN(b) THEN NaN
    ELSE IF a.d = 0 /\ b.d = 0 THEN (IF a.n = b.n THEN a ELSE NaN)
    ELSE IF a.d = 0 THEN a
    ELSE IF b.d = 0 THEN b
    ELSE Rat(a.n * b.d + b.n * a.d, a.d * b.d)

FSub(a, b) == FAdd(a, FNeg(b))

FMul(a, b) ==
    IF IsNaN(a) \/ IsNaN(b) THEN NaN ELSE Rat(a.n * b.n, a.d * b.d)

FDiv(a, b) ==
    IF IsNaN(a) \/ IsNaN(b) THEN NaN
    ELSE IF a.d = 0 /\ b.d # 0 THEN [n |-> a.n * (IF b.n < 0 THEN -1 ELSE 1), d |-> 0]
    ELSE Rat(a.n * b.d, a.d * b.n)

FSquare(a) == FMul(a, a)

FSqrt(a) == IF IsNaN(a) \/ a.n < 0 THEN NaN ELSE [sqrt |-> a]

RECURSIVE SumSeq(_)
SumSeq(s) == IF s = <<>> THEN Zero ELSE FAdd(s[1], SumSeq(Tail(s)))

\* np.nansum: nan entries count as zero
NanSum(s) == SumSeq([i \in DOMAIN s |-> IF IsNaN(s[i]) THEN Zero ELSE s[i]])

\* np.sum(~np.isnan(y)), Series.count(): the number of non-nan entries
CountNotNaN(s) == Cardinality({i \in DOMAIN s : ~IsNaN(s[i])})

\* np.nanmean: the mean of the non-nan entries (nan when there is none)
NanMean(s) == FDiv(NanSum(s), FromInt(CountNotNaN(s)))

---------------------------------------------------------------------------
(* rmse_masked and nse.                                                    *)

rmse_masked_DivByLen(y_true, y_pred) ==
    LET zero_or_error == [i \in DOMAIN y_true |->
                             IF IsNaN(y_true[i]) THEN Zero
                             ELSE FSub(y_pred[i], y_true[i])]
        sum_squared_errors == SumSeq([i \in DOMAIN y_true |-> FSquare(zero_or_error[i])])
    IN  FSqrt(FDiv(sum_squared_errors, FromInt(Len(y_true))))

rmse_masked(y_true, y_pred) ==
    LET num_y_true == CountNotNaN(y_true)
        zero_or_error == [i \in DOMAIN y_true |->
                             IF IsNaN(y_true[i]) THEN Zero
                             ELSE FSub(y_pred[i], y_true[i])]
        sum_squared_errors == SumSeq([i \in DOMAIN y_true |-> FSquare(zero_or_error[i])])
        rmse_loss == FSqrt(FDiv(sum_squared_errors, FromInt(num_y_true)))
    IN  rmse_loss

nse_MeanOverAll(y_true, y_pred) ==
    LET q_mean == FDiv(NanSum(y_true), FromInt(Len(y_true)))
        numerator == NanSum([i \in DOMAIN y_true |-> FSquare(FSub(y_true[i], y_pred[i]))])
        denominator == NanSum([i \in DOMAIN y_true |-> FSquare(FSub(y_true[i], q_mean))])
    IN  FSub(One, FDiv(numerator, denominator))

nse(y_true, y_pred) ==
    LET q_mean == NanMean(y_true)
        numerator == NanSum([i \in DOMAIN y_true |-> FSquare(FSub(y_true[i], y_pred[i]))])
        denominator == NanSum([i \in DOMAIN y_true |-> FSquare(FSub(y_true[i], q_mean))])
    IN  FSub(One, FDiv(numerator, denominator))

---------------------------------------------------------------------------
(* What the variables hold while they are not in use.                      *)

NoArgs == [tag |-> "", half_tst |-> FALSE, outdir |-> "", run_tag |-> "",
           logged_q |-> FALSE]

NoFiles == <<>>

PipelineIdle ==
    /\ args = NoArgs /\ io_data = <<>> /\ hist = <<>> /\ files = NoFiles /\ left = 0

FunctionIdle == op = "predict" /\ inp = <<>> /\ out = <<>>

---------------------------------------------------------------------------
(* The metric functions applied to bounded inputs.                         *)

MetricValues == {FromInt(i) : i \in 0..MaxVal} \cup {NaN}

InitMetrics ==
    /\ pc = "ready"
    /\ op = "metric"
    /\ \E k \in 0..MaxLen :
          \E t \in [1..k -> MetricValues], p \in [1..k -> MetricValues] :
             inp = [y_true |-> t, y_pred |-> p]
    /\ out = <<>>
    /\ PipelineIdle

CallRmseMasked ==
    /\ pc = "ready" /\ op = "metric"
    /\ op' = "rmse_masked"
    /\ out' = rmse_masked(inp.y_true, inp.y_pred)
    /\ pc' = "done"
    /\ UNCHANGED <<args, io_data, hist, files, left, inp>>

CallNse ==
    /\ pc = "ready" /\ op = "metric"
    /\ op' = "nse"
    /\ out' = nse(inp.y_true, inp.y_pred)
    /\ pc' = "done"
    /\ UNCHANGED <<args, io_data, hist, files, left, inp>>

NextMetrics == CallRmseMasked \/ CallNse

SpecMetrics == InitMetrics /\ [][NextMetrics]_vars

\* the positions with an observation
Present(y) == {i \in DOMAIN y : ~IsNaN(y[i])}

RECURSIVE SetSum(_, _)
SetSum(f, S) ==
    IF S = {} THEN 0
    ELSE LET i == CHOOSE j \in S : TRUE IN f[i] + SetSum(f, S \ {i})

\* integer view of a finite whole-valued entry
IntOf(v) == v.n

\* C5: with n >= 1 observations present, rmse_masked is sqrt(S/n), S the sum of
\* (pred-obs)^2 over exactly the positions with an observation, n their number;
\* the predictions at the other positions play no part (a nan prediction at a
\* position with an observation makes S, and the result, nan).
C5_RmseMasked ==
    (op = "rmse_masked" /\ pc = "done" /\ Present(inp.y_true) # {})
    => LET P == Present(inp.y_true)
           n == Cardinality(P)
           S == SetSum([i \in P |-> (IntOf(inp.y_pred[i]) - IntOf(inp.y_true[i]))
                                     * (IntOf(inp.y_pred[i]) - IntOf(inp.y_true[i]))], P)
       IN  IF \E i \in P : IsNaN(inp.y_pred[i])
           THEN out = NaN
           ELSE /\ DOMAIN out = {"sqrt"}
                /\ out.sqrt.d > 0
                /\ out.sqrt.n * n = S * out.sqrt.d

\* an observation is missing where the prediction is not, and is left out
C5_Witness ==
    /\ op = "rmse_masked" /\ pc = "done"
    /\ inp.y_true = <<FromInt(1), NaN, FromInt(2)>>
    /\ inp.y_pred = <<FromInt(2), FromInt(0), FromInt(2)>>
    /\ out = [sqrt |-> [n |-> 1, d |-> 2]]

\* C6: when no prediction is missing and the observations present are not all
\* equal, nse is 1 - N/D with N = sum (obs-pred)^2 and D = sum (obs-mean)^2, the
\* mean and both sums taken over exactly the positions with an observation; so
\* it is 1 when pred = obs there and 0 when pred = mean there, whatever is
\* predicted elsewhere.
C6_Nse ==
    (/\ op = "nse" /\ pc = "done"
     /\ \A i \in DOMAIN inp.y_pred : ~IsNaN(inp.y_pred[i])
     /\ \E i, j \in Present(inp.y_true) : inp.y_true[i] # inp.y_true[j])
    => LET P == Present(inp.y_true)
           n == Cardinality(P)
           o == [i \in P |-> IntOf(inp.y_true[i])]
           p == [i \in P |-> IntOf(inp.y_pred[i])]
           sum == SetSum(o, P)
           N == SetSum([i \in P |-> (o[i] - p[i]) * (o[i] - p[i])], P)
           \* n*n*D, with D = sum (o - sum/n)^2
           nnD == SetSum([i \in P |-> (n * o[i] - sum) * (n * o[i] - sum)], P)
       IN  /\ DOMAIN out = {"n", "d"}
           /\ out.d > 0
           /\ out.n * nnD = out.d * (nnD - n * n * N)
           /\ (\A i \in P : p[i] = o[i]) => out = One
           /\ (\A i \in P : n * p[i] = sum) => out = Zero

\* predictions equal to the mean of the two observations present
C6_Witness ==
    /\ op = "nse" /\ pc = "done"
    /\ inp.y_true = <<FromInt(0), NaN, FromInt(2)>>
    /\ inp.y_pred = <<FromInt(1), FromInt(2), FromInt(1)>>
    /\ out = Zero

---------------------------------------------------------------------------
(* fmt_preds_obs: the predictions of one variable joined with its          *)
(* observations.  A table is a sequence of rows (records); reading the two *)
(* files is left to the caller, the operator gets their tables.            *)

SameKey(a, b) == a.date = b.date /\ a.seg_id_nat = b.seg_id_nat

RECURSIVE Concat(_)
Concat(ss) == IF ss = <<>> THEN <<>> ELSE ss[1] \o Concat(Tail(ss))

\* preds.join(obs): a left join on the index (date, seg_id_nat)
JoinLeft(preds, obs) ==
    Concat([i \in DOMAIN preds |->
        LET hits == SelectSeq(obs, LAMBDA r : SameKey(r, preds[i]))
        IN  IF hits = <<>>
            THEN <<[date |-> preds[i].date, seg_id_nat |-> preds[i].seg_id_nat,
                    pred |-> preds[i].pred, obs |-> NaN]>>
            ELSE [j \in DOMAIN hits |->
                    [date |-> preds[i].date, seg_id_nat |-> preds[i].seg_id_nat,
                     pred |-> preds[i].pred, obs |-> hits[j].obs]]])

\* preds.join(obs, how='inner')
JoinInner(preds, obs) ==
    Concat([i \in DOMAIN preds |->
        LET hits == SelectSeq(obs, LAMBDA r : SameKey(r, preds[i]))
        IN  [j \in DOMAIN hits |->
                [date |-> preds[i].date, seg_id_nat |-> preds[i].seg_id_nat,
                 pred |-> preds[i].pred, obs |-> hits[j].obs]]])

fmt_preds_obs_Inner(pred_data, obs_data, variable) ==
    LET obs == [j \in DOMAIN obs_data |->
                   [date |-> obs_data[j].date, seg_id_nat |-> obs_data[j].seg_id_nat,
                    obs |-> obs_data[j][variable]]]
        preds == [i \in DOMAIN pred_data |->
                   [date |-> pred_data[i].date, seg_id_nat |-> pred_data[i].seg_id_nat,
                    pred |-> pred_data[i][variable]]]
    IN  JoinInner(preds, obs)

fmt_preds_obs(pred_data, obs_data, variable) ==
    LET obs == [j \in DOMAIN obs_data |->
                   [date |-> obs_data[j].date, seg_id_nat |-> obs_data[j].seg_id_nat,
                    obs |-> obs_data[j][variable]]]
        preds == [i \in DOMAIN pred_data |->
                   [date |-> pred_data[i].date, seg_id_nat |-> pred_data[i].seg_id_nat,
                    pred |-> pred_data[i][variable]]]
        combined == JoinLeft(preds, obs)
    IN  combined

Variables == {"temp_c", "discharge_cms"}

\* the k-th key: (1,1), (1,2), (2,1), (2,2), (3,1), ...
KeyDate(k) == ((k - 1) \div 2) + 1

KeySeg(k) == ((k - 1) % 2) + 1

\* a predictions table with the given keys; every value is told apart by its row
PredTable(keys) ==
    [i \in DOMAIN keys |->
        [date |-> KeyDate(keys[i]), seg_id_nat |-> KeySeg(keys[i]),
         temp_c |-> FromInt(10 * i + 1), discharge_cms |-> FromInt(10 * i + 2)]]

\* an observations table with the given keys; an entry may be nan in the file
ObsTable(keys, gap) ==
    [j \in DOMAIN keys |->
        [date |-> KeyDate(keys[j]), seg_id_nat |-> KeySeg(keys[j]),
         temp_c |-> IF gap[j] THEN NaN ELSE FromInt(100 + 10 * j + 1),
         discharge_cms |-> IF gap[j] THEN NaN ELSE FromInt(100 + 10 * j + 2)]]

InitJoin ==
    /\ pc = "ready"
    /\ op = "fmt_preds_obs"
    /\ \E np \in 0..MaxJoinRows, no \in 0..MaxJoinRows :
          \E kp \in [1..np -> 1..NumKeys], ko \in [1..no -> 1..NumKeys],
             gap \in [1..no -> BOOLEAN], v \in Variables :
             inp = [pred_data |-> PredTable(kp), obs_data |-> ObsTable(ko, gap),
                    variable |-> v]
    /\ out = <<>>
    /\ PipelineIdle

CallFmtPredsObs ==
    /\ pc = "ready" /\ op = "fmt_preds_obs"
    /\ out' = fmt_preds_obs(inp.pred_data, inp.obs_data, inp.variable)
    /\ pc' = "done"
    /\ UNCHANGED <<args, io_data, hist, files, left, op, inp>>

NextJoin == CallFmtPredsObs

SpecJoin == InitJoin /\ [][NextJoin]_vars

UniqueKeys(t) == \A i, j \in DOMAIN t : SameKey(t[i], t[j]) => i = j

\* C4: with unique (date, seg_id_nat) keys in both tables, the joined table has
\* one row per predictions row, with its key and its pred value; obs is the
\* observation of the same key, or missing when there is none; a key that only
\* the observations have is in no row.
C4_Join ==
    (/\ op = "fmt_preds_obs" /\ pc = "done"
     /\ UniqueKeys(inp.pred_data) /\ UniqueKeys(inp.obs_data))
    => /\ Len(out) = Len(inp.pred_data)
       /\ \A i \in DOMAIN inp.pred_data :
             /\ SameKey(out[i], inp.pred_data[i])
             /\ out[i].pred = inp.pred_data[i][inp.variable]
             /\ \A j \in DOMAIN inp.obs_data :
                   SameKey(inp.obs_data[j], inp.pred_data[i])
                   => out[i].obs = inp.obs_data[j][inp.variable]
             /\ (\A j \in DOMAIN inp.obs_data : ~SameKey(inp.obs_data[j], inp.pred_data[i]))
                   => IsNaN(out[i].obs)
       /\ \A j \in DOMAIN inp.obs_data :
             (\A i \in DOMAIN inp.pred_data : ~SameKey(inp.obs_data[j], inp.pred_data[i]))
             => \A r \in DOMAIN out : ~SameKey(out[r], inp.obs_data[j])

\* one prediction with its observation, one without, and an observation of a
\* key that has no prediction
C4_Witness ==
    /\ op = "fmt_preds_obs" /\ pc = "done"
    /\ UniqueKeys(inp.pred_data) /\ UniqueKeys(inp.obs_data)
    /\ Len(inp.pred_data) = 2 /\ Len(inp.obs_data) = 2
    /\ Len(out) = 2
    /\ ~IsNaN(out[1].obs) /\ IsNaN(out[2].obs)
    /\ \E j \in DOMAIN inp.obs_data : \A r \in DOMAIN out : ~SameKey(out[r], inp.obs_data[j])
    /\ \A j \in DOMAIN inp.obs_data : ~IsNaN(inp.obs_data[j][inp.variable])

---------------------------------------------------------------------------
(* calc_reach_specific_metrics and the groupby of reach_specific_metrics.  *)

Column(df, c) == [i \in DOMAIN df |-> df[i][c]]

calc_reach_specific_metrics_CountRows(df) ==
    IF Len(df) > MinObsCount
    THEN [rmse |-> rmse_masked(Column(df, "obs"), Column(df, "pred")),
          nse |-> nse(Column(df, "obs"), Column(df, "pred"))]
    ELSE [rmse |-> NaN, nse |-> NaN]

calc_reach_specific_metrics(df) ==
    IF CountNotNaN(Column(df, "obs")) > MinObsCount
    THEN LET reach_rmse == rmse_masked(Column(df, "obs"), Column(df, "pred"))
             reach_nse == nse(Column(df, "obs"), Column(df, "pred"))
         IN  [rmse |-> reach_rmse, nse |-> reach_nse]
    ELSE [rmse |-> NaN, nse |-> NaN]

RECURSIVE SortSet(_)
SortSet(S) ==
    IF S = {} THEN <<>>
    ELSE LET m == CHOOSE x \in S : \A y \in S : x <= y
         IN  <<m>> \o SortSet(S \ {m})

\* data.groupby('seg_id_nat').apply(calc_reach_specific_metrics).reset_index():
\* one row per segment of the table, in ascending order of the segment id
GroupByReach(data) ==
    LET segs == SortSet({data[i].seg_id_nat : i \in DOMAIN data})
    IN  [g \in DOMAIN segs |->
            LET df == SelectSeq(data, LAMBDA r : r.seg_id_nat = segs[g])
                m == calc_reach_specific_metrics(df)
            IN  [seg_id_nat |-> segs[g], rmse |-> m.rmse, nse |-> m.nse]]

\* the n rows of one segment in a joined table, the first k without observation
GroupRows(seg, n, k, a) ==
    [i \in 1..n |->
        [date |-> i, seg_id_nat |-> seg,
         pred |-> FromInt((i + seg) % 2),
         obs |-> IF i <= k THEN NaN ELSE FromInt((a * i) % 3)]]

Min(x, y) == IF x <= y THEN x ELSE y

InitReach ==
    /\ pc = "ready"
    /\ op = "reach"
    /\ \E n1 \in 0..MaxGroup, n2 \in 0..MaxGroup, a \in 0..1 :
          \E k1 \in 0..Min(MaxMissing, n1), k2 \in 0..Min(MaxMissing, n2) :
             inp = GroupRows(2, n2, k2, a) \o GroupRows(1, n1, k1, a)
    /\ out = <<>>
    /\ PipelineIdle

CallGroupByReach ==
    /\ pc = "ready" /\ op = "reach"
    /\ out' = GroupByReach(inp)
    /\ pc' = "done"
    /\ UNCHANGED <<args, io_data, hist, files, left, op, inp>>

NextReach == CallGroupByReach

SpecReach == InitReach /\ [][NextReach]_vars

\* the rows of segment s, and how many of them have an observation
RowsOf(data, s) == SelectSeq(data, LAMBDA r : r.seg_id_nat = s)

ObsCount(data, s) ==
    Cardinality({i \in DOMAIN data : data[i].seg_id_nat = s /\ ~IsNaN(data[i].obs)})

\* C3: every segment of the joined table gets one row; rmse and nse are both nan
\* when the segment has 10 or fewer observations, and are the masked RMSE and the
\* NSE of that segment's rows alone when it has 11 or more; what is counted is
\* the observations, not the rows.
C3_Reach ==
    (op = "reach" /\ pc = "done")
    => /\ {out[g].seg_id_nat : g \in DOMAIN out} = {inp[i].seg_id_nat : i \in DOMAIN inp}
       /\ \A g, h \in DOMAIN out : out[g].seg_id_nat = out[h].seg_id_nat => g = h
       /\ \A g \in DOMAIN out :
             LET s == out[g].seg_id_nat
                 y_true == Column(RowsOf(inp, s), "obs")
                 y_pred == Column(RowsOf(inp, s), "pred")
             IN  /\ ObsCount(inp, s) <= 10 => IsNaN(out[g].rmse) /\ IsNaN(out[g].nse)
                 /\ ObsCount(inp, s) >= 11
                       => /\ out[g].rmse = rmse_masked(y_true, y_pred)
                          /\ out[g].nse = nse(y_true, y_pred)
                          /\ DOMAIN out[g].rmse = {"sqrt"}

\* segment 1 has 12 rows and 10 observations, segment 2 has 11 rows and 11
C3_Witness ==
    /\ op = "reach" /\ pc = "done"
    /\ Len(RowsOf(inp, 1)) = 12 /\ ObsCount(inp, 1) = 10
    /\ Len(RowsOf(inp, 2)) = 11 /\ ObsCount(inp, 2) = 11
    /\ Len(out) = 2
    /\ out[1].seg_id_nat = 1 /\ IsNaN(out[1].rmse) /\ IsNaN(out[1].nse)
    /\ out[2].seg_id_nat = 2 /\ DOMAIN out[2].rmse = {"sqrt"} /\ ~IsNaN(out[2].nse)

---------------------------------------------------------------------------
(* take_first_half.  A predictions table is a sequence of rows             *)
(* [date, seg_id_nat, temp_c, discharge_cms]; dates are integers (days).   *)

\* a value of the prediction pipeline: the integer x with exp applied e times
Num(x) == [e |-> 0, x |-> x]

\* df.set_index('date'); df.sort_index(): the rows in ascending order of date.
\* The default sort (quicksort) is not stable, so rows of one date may come out
\* in any order: the set of the possible results.
RECURSIVE SortIndex(_, _)
SortIndex(df, todo) ==
    IF todo = {} THEN {<<>>}
    ELSE LET first == {i \in todo : \A j \in todo : df[i].date <= df[j].date}
         IN  UNION {{<<df[i]>> \o rest : rest \in SortIndex(df, todo \ {i})} : i \in first}

\* df.index.unique() of a sorted index: the distinct dates, ascending
RECURSIVE Unique(_)
Unique(dates) ==
    IF dates = <<>> THEN <<>>
    ELSE LET u == Unique(SubSeq(dates, 1, Len(dates) - 1))
             d == dates[Len(dates)]
         IN  IF \E k \in DOMAIN u : u[k] = d THEN u ELSE Append(u, d)

HalfwayDate_LowerMiddle(unique_dates) ==
    unique_dates[((Len(unique_dates) - 1) \div 2) + 1]

\* unique_dates[int(len(unique_dates)/2)], Python's index counted from 0
HalfwayDate(unique_dates) == unique_dates[(Len(unique_dates) \div 2) + 1]

\* df.loc[:halfway_date] on a sorted index: the rows up to, and with, the last
\* row labelled halfway_date
LocUpTo(sorted, halfway_date) ==
    LET last == CHOOSE i \in DOMAIN sorted :
                    /\ sorted[i].date = halfway_date
                    /\ \A j \in DOMAIN sorted : sorted[j].date = halfway_date => j <= i
    IN  SubSeq(sorted, 1, last)

\* the possible results for a table with at least one row (with none,
\* unique_dates[0] raises IndexError: see the callers)
take_first_half(df) ==
    {LET unique_dates == Unique([i \in DOMAIN sorted |-> sorted[i].date])
         halfway_date == HalfwayDate(unique_dates)
         df_first_half == LocUpTo(sorted, halfway_date)
     IN  df_first_half : sorted \in SortIndex(df, DOMAIN df)}

InitSplit ==
    /\ pc = "ready"
    /\ op = "take_first_half"
    /\ \E n \in 0..MaxSplitRows :
          \E d \in [1..n -> 1..MaxSplitDate], g \in [1..n -> 1..2] :
             inp = [i \in 1..n |-> [date |-> d[i], seg_id_nat |-> g[i],
                                    temp_c |-> Num(d[i]), discharge_cms |-> Num(g[i])]]
    /\ out = <<>>
    /\ PipelineIdle

CallTakeFirstHalf ==
    /\ pc = "ready" /\ op = "take_first_half"
    /\ IF inp = <<>>
       THEN pc' = "IndexError" /\ out' = out
       ELSE \E r \in take_first_half(inp) : out' = r /\ pc' = "done"
    /\ UNCHANGED <<args, io_data, hist, files, left, op, inp>>

NextSplit == CallTakeFirstHalf

SpecSplit == InitSplit /\ [][NextSplit]_vars

Range(t) == {t[i] : i \in DOMAIN t}

\* how often row r is in table t
Times(t, r) == Cardinality({i \in DOMAIN t : t[i] = r})

DatesOf(t) == {t[i].date : i \in DOMAIN t}

\* the date with floor(n/2) of the n distinct dates before it
Boundary(t) ==
    CHOOSE d \in DatesOf(t) :
        Cardinality({e \in DatesOf(t) : e < d}) = Cardinality(DatesOf(t)) \div 2

\* table h holds exactly the rows of table t dated up to t's boundary date
IsFirstHalf(h, t) ==
    /\ \A r \in Range(t) \cup Range(h) :
          Times(h, r) = IF r.date <= Boundary(t) THEN Times(t, r) ELSE 0
    /\ Cardinality(DatesOf(h)) = (Cardinality(DatesOf(t)) \div 2) + 1

\* C2: for a table with at least one row take_first_half returns exactly the
\* rows dated up to the boundary, the date at index floor(n/2) of the n distinct
\* dates in ascending order: the boundary's rows are kept, later rows are not,
\* no earlier row is lost, and floor(n/2)+1 distinct dates remain.
C2_FirstHalf ==
    (op = "take_first_half" /\ inp # <<>>)
    => /\ pc \in {"ready", "done"}
       /\ pc = "done" => IsFirstHalf(out, inp)

\* three distinct dates given out of order, date 2 for two segments: the rows
\* of dates 1 and 2 are kept
C2_Witness ==
    /\ op = "take_first_half" /\ pc = "done"
    /\ [i \in DOMAIN inp |-> inp[i].date] = <<3, 1, 2, 2>>
    /\ {inp[i].seg_id_nat : i \in DOMAIN inp} = {1, 2}
    /\ Len(out) = 3
    /\ DatesOf(out) = {1, 2}

---------------------------------------------------------------------------
(* post_process and unscale_output.  An array [nbatch, seq_len, n_out] is  *)
(* a sequence of nbatch sequences of seq_len sequences of n_out entries.   *)

RECURSIVE Flatten(_)
Flatten(a) == IF a = <<>> THEN <<>> ELSE a[1] \o Flatten(Tail(a))

\* order='F': the first index runs fastest
Reshape_FortranOrder(a, rows, cols) ==
    LET nb == Len(a)
        nt == Len(a[1])
        no == Len(a[1][1])
        \* the k-th entry (from 0) in Fortran order
        entry(k) == a[(k % nb) + 1][((k \div nb) % nt) + 1][(k \div (nb * nt)) + 1]
    IN  [r \in 1..rows |-> [c \in 1..cols |-> entry((r - 1) + (c - 1) * rows)]]

\* np.reshape(a, [rows, cols]) of a 3-dimensional array: the entries in row-major
\* (C) order, the last index running fastest, cut into rows of cols entries
Reshape(a, rows, cols) ==
    LET flat == Flatten(Flatten(a))
    IN  [r \in 1..rows |-> [c \in 1..cols |-> flat[(r - 1) * cols + c]]]

Shape(a) == <<Len(a), Len(a[1]), Len(a[1][1])>>

post_process(y_pred, dates, ids) ==
    LET y_pred2 == Reshape(y_pred, Shape(y_pred)[1] * Shape(y_pred)[2], Shape(y_pred)[3])
        dates2 == Reshape(dates, Shape(dates)[1] * Shape(dates)[2], Shape(dates)[3])
        ids2 == Reshape(ids, Shape(ids)[1] * Shape(ids)[2], Shape(ids)[3])
        \* pd.concat(axis=1) of three frames with the same RangeIndex
        df == [i \in DOMAIN y_pred2 |->
                 [date |-> dates2[i][1], seg_id_nat |-> ids2[i][1],
                  temp_c |-> y_pred2[i][1], discharge_cms |-> y_pred2[i][2]]]
    IN  df

\* standardized * std + mean
Unscale(v, std, mean) == [e |-> v.e, x |-> v.x * std + mean]

\* np.exp
Exp(v) == [e |-> v.e + 1, x |-> v.x]

unscale_output_ExpBoth(y_scl, y_std, y_mean, logged_q) ==
    [i \in DOMAIN y_scl |->
        LET t == Unscale(y_scl[i].temp_c, y_std[1], y_mean[1])
            q == Unscale(y_scl[i].discharge_cms, y_std[2], y_mean[2])
        IN  [y_scl[i] EXCEPT !.temp_c = IF logged_q THEN Exp(t) ELSE t,
                             !.discharge_cms = IF logged_q THEN Exp(q) ELSE q]]

unscale_output(y_scl, y_std, y_mean, logged_q) ==
    LET y_unscaled_data ==
            [i \in DOMAIN y_scl |->
                [y_scl[i] EXCEPT !.temp_c = Unscale(@, y_std[1], y_mean[1]),
                                 !.discharge_cms = Unscale(@, y_std[2], y_mean[2])]]
    IN  IF logged_q
        THEN [i \in DOMAIN y_scl |->
                [y_unscaled_data[i] EXCEPT !.discharge_cms = Exp(@)]]
        ELSE y_unscaled_data

---------------------------------------------------------------------------
(* predict, one statement at a time.                                       *)

ValidTag_Any(tag) == TRUE

\* if tag == 'trn' or tag == 'tst': pass, else: raise ValueError
ValidTag(tag) == tag = "trn" \/ tag = "tst"

HalveTest_AnyTag(half_tst, tag) == half_tst

\* if half_tst and tag == 'tst'
HalveTest(half_tst, tag) == half_tst /\ tag = "tst"

PredsPath(outdir, tag, run_tag) == outdir \o tag \o "_preds" \o run_tag \o ".feather"

\* a write of content to path, made by a call of fn
Write(fs, path, fn, a, content) ==
    LET w == [fn |-> fn, outdir |-> a.outdir, tag |-> a.tag, run_tag |-> a.run_tag,
              content |-> content]
    IN  IF path \in DOMAIN fs
        THEN [fs EXCEPT ![path] = Append(@, w)]
        ELSE fs @@ (path :> <<w>>)

\* the table the running call holds (y_pred_pp)
Last(h) == h[Len(h)].value

Tags == {"trn", "tst", "val"}

\* predict.py: run_tag is '' or '_' followed by the -t option
RunTags == {"", "_a"}

OutDirs == {"", "out/"}

\* the date and the segment of entry [b, t], by the layout of the batches
DateAt(pat, b, t, nt) ==
    CASE pat = "per_segment" -> t
      [] pat = "chunked" -> ((b - 1) % 2) * nt + t
      [] pat = "descending" -> nt - t + 1

SegAt(pat, b) == IF pat = "chunked" THEN ((b - 1) \div 2) + 1 ELSE b

Patterns == {"per_segment", "chunked", "descending"}

Scalings == {[std |-> <<2, 3>>, mean |-> <<10, -1>>],
             [std |-> <<1, 2>>, mean |-> <<0, 5>>]}

\* the archive np.load returns; the test period follows the training period
IoData(nb, nt, pat, sc) ==
    [x_trn |-> [shape |-> <<nb, nt>>, base |-> 0],
     x_tst |-> [shape |-> <<nb, nt>>, base |-> 100],
     dates_trn |-> [b \in 1..nb |-> [t \in 1..nt |-> <<DateAt(pat, b, t, nt)>>]],
     dates_tst |-> [b \in 1..nb |-> [t \in 1..nt |-> <<50 + DateAt(pat, b, t, nt)>>]],
     ids_trn |-> [b \in 1..nb |-> [t \in 1..nt |-> <<SegAt(pat, b)>>]],
     ids_tst |-> [b \in 1..nb |-> [t \in 1..nt |-> <<SegAt(pat, b)>>]],
     dist_matrix |-> [shape |-> <<nb, nb>>],
     y_trn_obs_std |-> sc.std,
     y_trn_obs_mean |-> sc.mean]

\* trained_model.predict(x, batch_size): the model is not part of this code; it
\* returns some array [nbatch, seq_len, 2] for an input of nbatch sequences
ModelPredictions(x) ==
    {[b \in 1..x.shape[1] |-> [t \in 1..x.shape[2] |->
        <<Num(s * (x.base + 10 * b + t)), Num(1 - s * (x.base + 10 * b + t))>>]]
     : s \in {1, -1}}

Init ==
    /\ pc = "idle"
    /\ args = NoArgs
    /\ \E nb \in 1..MaxB, nt \in 1..MaxT, pat \in Patterns, sc \in Scalings :
          io_data = IoData(nb, nt, pat, sc)
    /\ hist = <<>>
    /\ files = NoFiles
    /\ left = 1
    /\ FunctionIdle

\* predict(trained_model, io_data, half_tst, tag, outdir, run_tag, logged_q)
Call ==
    /\ pc \in {"idle", "done"}
    /\ left > 0
    /\ left' = left - 1
    /\ \E tag \in Tags, half_tst \in BOOLEAN, outdir \in OutDirs,
          run_tag \in RunTags, logged_q \in BOOLEAN :
          args' = [tag |-> tag, half_tst |-> half_tst, outdir |-> outdir,
                   run_tag |-> run_tag, logged_q |-> logged_q]
    /\ hist' = <<>>
    /\ pc' = "validate"
    /\ UNCHANGED <<io_data, files, op, inp, out>>

Validate ==
    /\ pc = "validate"
    /\ pc' = IF ValidTag(args.tag) THEN "model.predict" ELSE "ValueError"
    /\ UNCHANGED <<args, io_data, hist, files, left, op, inp, out>>

ModelPredict ==
    /\ pc = "model.predict"
    /\ IF "x_" \o args.tag \in DOMAIN io_data
       THEN \E y_pred \in ModelPredictions(io_data["x_" \o args.tag]) :
               /\ hist' = Append(hist, [step |-> "model.predict", value |-> y_pred])
               /\ pc' = "post_process"
       ELSE pc' = "KeyError" /\ hist' = hist
    /\ UNCHANGED <<args, io_data, files, left, op, inp, out>>

PostProcess ==
    /\ pc = "post_process"
    /\ hist' = Append(hist, [step |-> "post_process",
                             value |-> post_process(Last(hist),
                                                    io_data["dates_" \o args.tag],
                                                    io_data["ids_" \o args.tag])])
    /\ pc' = "unscale_output"
    /\ UNCHANGED <<args, io_data, files, left, op, inp, out>>

UnscaleOutput ==
    /\ pc = "unscale_output"
    /\ hist' = Append(hist, [step |-> "unscale_output",
                             value |-> unscale_output(Last(hist), io_data.y_trn_obs_std,
                                                      io_data.y_trn_obs_mean,
                                                      args.logged_q)])
    /\ pc' = "halve"
    /\ UNCHANGED <<args, io_data, files, left, op, inp, out>>

Halve ==
    /\ pc = "halve"
    /\ IF HalveTest(args.half_tst, args.tag)
       THEN IF Last(hist) = <<>>
            THEN pc' = "IndexError" /\ hist' = hist
            ELSE \E r \in take_first_half(Last(hist)) :
                    /\ hist' = Append(hist, [step |-> "take_first_half", value |-> r])
                    /\ pc' = "to_feather"
       ELSE pc' = "to_feather" /\ hist' = hist
    /\ UNCHANGED <<args, io_data, files, left, op, inp, out>>

ToFeather ==
    /\ pc = "to_feather"
    /\ files' = Write(files, PredsPath(args.outdir, args.tag, args.run_tag),
                      "predict", args, Last(hist))
    /\ hist' = Append(hist, [step |-> "to_feather", value |-> Last(hist)])
    /\ pc' = "done"
    /\ UNCHANGED <<args, io_data, left, op, inp, out>>

predict == Validate \/ ModelPredict \/ PostProcess \/ UnscaleOutput \/ Halve \/ ToFeather

Next == Call \/ predict

Spec == Init /\ [][Next]_vars

\* the steps the running call has made, by name
Steps == [k \in DOMAIN hist |-> hist[k].step]

IsPrefix(a, b) == Len(a) <= Len(b) /\ a = SubSeq(b, 1, Len(a))

\* C1: with a tag other than 'trn' and 'tst' predict raises the validation error
\* before anything else: the model is not asked to predict, no table is built
\* and no file is written; with 'trn' or 'tst' the error is not raised.
C1_TagValidated ==
    /\ (pc # "idle" /\ args.tag \notin {"trn", "tst"})
          => pc \in {"validate", "ValueError"} /\ hist = <<>> /\ files = NoFiles
    /\ args.tag \in {"trn", "tst"} => pc # "ValueError"

C1_Witness ==
    pc = "ValueError" /\ args.tag = "val" /\ hist = <<>> /\ files = NoFiles

\* C7: from arrays [B,T,2], [B,T,1], [B,T,1] post_process makes a table of B*T
\* rows whose row (b-1)*T+t (counted from 1) holds date[b,t], id[b,t], pred[b,t,0]
\* as temp_c and pred[b,t,1] as discharge_cms: batch after batch, nothing sorted,
\* dropped or repeated.
C7_PostProcess ==
    \A k \in DOMAIN hist :
        hist[k].step = "post_process"
        => LET y_pred == hist[k - 1].value
               dates == io_data["dates_" \o args.tag]
               ids == io_data["ids_" \o args.tag]
               B == Len(y_pred)
               T == Len(y_pred[1])
               df == hist[k].value
           IN  /\ Len(df) = B * T
               /\ \A b \in 1..B, t \in 1..T :
                     df[(b - 1) * T + t] =
                        [date |-> dates[b][t][1], seg_id_nat |-> ids[b][t][1],
                         temp_c |-> y_pred[b][t][1], discharge_cms |-> y_pred[b][t][2]]

\* two batches of three time steps, tabulated
C7_Witness ==
    /\ pc = "unscale_output"
    /\ Steps = <<"model.predict", "post_process">>
    /\ Len(hist[1].value) = 2 /\ Len(hist[1].value[1]) = 3
    /\ Len(hist[2].value) = 6
    /\ hist[2].value[4].temp_c = hist[1].value[2][1][1]

\* C9: unscale_output replaces temp_c by temp_c*std[0]+mean[0] and discharge_cms
\* by discharge_cms*std[1]+mean[1] in every row; with logged_q it then applies exp
\* to discharge_cms alone, without logged_q to nothing; dates, segment ids, the
\* number of rows and their order stay as they are.
C9_Unscale ==
    \A k \in DOMAIN hist :
        hist[k].step = "unscale_output"
        => LET before == hist[k - 1].value
               after == hist[k].value
               std == io_data.y_trn_obs_std
               mean == io_data.y_trn_obs_mean
           IN  /\ Len(after) = Len(before)
               /\ \A i \in DOMAIN before :
                     /\ DOMAIN after[i] = DOMAIN before[i]
                     /\ after[i].date = before[i].date
                     /\ after[i].seg_id_nat = before[i].seg_id_nat
                     /\ after[i].temp_c =
                           [e |-> 0, x |-> before[i].temp_c.x * std[1] + mean[1]]
                     /\ after[i].discharge_cms =
                           [e |-> IF args.logged_q THEN 1 ELSE 0,
                            x |-> before[i].discharge_cms.x * std[2] + mean[2]]

\* a table of several rows rescaled with logged_q set
C9_Witness ==
    /\ pc = "halve"
    /\ args.logged_q
    /\ Steps = <<"model.predict", "post_process", "unscale_output">>
    /\ Len(hist[3].value) = 6
    /\ hist[3].value[1].discharge_cms.e = 1 /\ hist[3].value[1].temp_c.e = 0
    /\ hist[3].value[1].temp_c # hist[2].value[1].temp_c

\* the steps of a whole run, in order
StepsWith(halved) ==
    IF halved
    THEN <<"model.predict", "post_process", "unscale_output", "take_first_half",
           "to_feather">>
    ELSE <<"model.predict", "post_process", "unscale_output", "to_feather">>

---------------------------------------------------------------------------
(* The evaluation stage: calc_metrics and reach_specific_metrics, each a   *)
(* whole call.  The predictions and observations files they read are the   *)
(* caller's; inp holds their tables.                                       *)

\* str(x)
Str(x) == [str |-> x]

MetricsPath(outdir, tag, run_tag) == outdir \o tag \o "_metrics" \o run_tag \o ".json"

TempReachPath(outdir, tag, run_tag) ==
    outdir \o tag \o "_temp_reach_metrics" \o run_tag \o ".feather"

FlowReachPath(outdir, tag, run_tag) ==
    outdir \o tag \o "_flow_reach_metrics" \o run_tag \o ".feather"

calc_metrics(fs, pred_file, obs_file_temp, obs_file_flow, outdir, tag, run_tag) ==
    LET a == [outdir |-> outdir, tag |-> tag, run_tag |-> run_tag]
        temp_data == fmt_preds_obs(pred_file, obs_file_temp, "temp_c")
        flow_data == fmt_preds_obs(pred_file, obs_file_flow, "discharge_cms")
        fs1 == Write(fs, "fmt_temp.feather", "calc_metrics", a, temp_data)
        rmse_temp == rmse_masked(Column(temp_data, "obs"), Column(temp_data, "pred"))
        rmse_flow == rmse_masked(Column(flow_data, "obs"), Column(flow_data, "pred"))
        nse_temp == nse(Column(temp_data, "obs"), Column(temp_data, "pred"))
        nse_flow == nse(Column(flow_data, "obs"), Column(flow_data, "pred"))
        metrics_data == [rmse_temp |-> Str(rmse_temp), rmse_flow |-> Str(rmse_flow),
                         nse_temp |-> Str(nse_temp), nse_flow |-> Str(nse_flow)]
    IN  Write(fs1, MetricsPath(outdir, tag, run_tag), "calc_metrics", a, metrics_data)

reach_specific_metrics(fs, pred_file, obs_file_temp, obs_file_flow, outdir, tag, run_tag) ==
    LET a == [outdir |-> outdir, tag |-> tag, run_tag |-> run_tag]
        temp_data == fmt_preds_obs(pred_file, obs_file_temp, "temp_c")
        flow_data == fmt_preds_obs(pred_file, obs_file_flow, "discharge_cms")
        reach_metrics_temp == GroupByReach(temp_data)
        reach_metrics_flow == GroupByReach(flow_data)
        fs1 == Write(fs, TempReachPath(outdir, tag, run_tag), "reach_specific_metrics",
                     a, reach_metrics_temp)
    IN  Write(fs1, FlowReachPath(outdir, tag, run_tag), "reach_specific_metrics",
              a, reach_metrics_flow)

InitRuns ==
    /\ pc = "idle"
    /\ args = NoArgs
    /\ io_data = IoData(1, 2, "per_segment", [std |-> <<2, 3>>, mean |-> <<10, -1>>])
    /\ hist = <<>>
    /\ files = NoFiles
    /\ left = MaxRuns
    /\ op = "predict"
    /\ \E gt \in [1..2 -> BOOLEAN], gf \in [1..2 -> BOOLEAN] :
          inp = [pred_file |-> PredTable(<<1, 2, 3>>),
                 obs_file_temp |-> ObsTable(<<1, 3>>, gt),
                 obs_file_flow |-> ObsTable(<<2, 3>>, gf)]
    /\ out = <<>>

CalcMetrics ==
    /\ pc \in {"idle", "done"}
    /\ left > 0
    /\ left' = left - 1
    /\ \E outdir \in OutDirs, tag \in {"trn", "tst"}, run_tag \in RunTags :
          files' = calc_metrics(files, inp.pred_file, inp.obs_file_temp,
                                inp.obs_file_flow, outdir, tag, run_tag)
    /\ pc' = "idle" /\ args' = NoArgs /\ hist' = <<>>
    /\ UNCHANGED <<io_data, op, inp, out>>

ReachSpecificMetrics ==
    /\ pc \in {"idle", "done"}
    /\ left > 0
    /\ left' = left - 1
    /\ \E outdir \in OutDirs, tag \in {"trn", "tst"}, run_tag \in RunTags :
          files' = reach_specific_metrics(files, inp.pred_file, inp.obs_file_temp,
                                          inp.obs_file_flow, outdir, tag, run_tag)
    /\ pc' = "idle" /\ args' = NoArgs /\ hist' = <<>>
    /\ UNCHANGED <<io_data, op, inp, out>>

NextRuns == Call \/ predict \/ CalcMetrics \/ ReachSpecificMetrics

SpecRuns == InitRuns /\ [][NextRuns]_vars

\* C8: every file written by predict, calc_metrics and reach_specific_metrics
\* has a path fixed by outdir, the train/test tag and the run tag, so that runs
\* differing in tag or run tag never write the same file.
C8_FilesScopedByRun ==
    \A p \in DOMAIN files :
        \A i, j \in DOMAIN files[p] :
            /\ files[p][i].tag = files[p][j].tag
            /\ files[p][i].run_tag = files[p][j].run_tag

=============================================================================
